---- MODULE Spec2Model ----
(***************************************************************************)
(* The report collector of car_inventory_scraper (HtmlReportPipeline in    *)
(* pipelines.py), the part of the crawl command (cli.py) that registers    *)
(* the number of spiders and runs them, the pricing, package and           *)
(* drivetrain fields the spiders store in an item (spiders/*.py,           *)
(* parsing_helpers.py) and the item pipelines (pipelines.py, settings.py). *)
(*                                                                         *)
(* The class-level attributes _all_items, _total_expected and              *)
(* _completed_count are shared by every pipeline instance of the process.  *)
(* _all_items is a reference to a Python list object: the model keeps the  *)
(* list objects in a heap so that `items = _all_items` is an alias and     *)
(* `_all_items = []` is the allocation of a new object.                    *)
(*                                                                         *)
(* Spec            the handlers as Scrapy runs them: every call of a       *)
(*                 handler is one step (synchronous methods called from    *)
(*                 the single reactor thread).                             *)
(* LiveSpec        Spec with the spiders that did not fail scheduled.      *)
(* MisuseSpec      Spec with callers that break the protocol (calls after  *)
(*                 the batch has finalized).                               *)
(* AppendRaceSpec  close_spider executed statement by statement, with      *)
(*                 process_item called from preemptive producers.          *)
(* ThreadSpec      close_spider calls of several threads interleaved       *)
(*                 statement by statement.                                 *)
(* CliSpec         the spiders started one after the other by the crawl    *)
(*                 command; CliLiveSpec schedules them.                    *)
(* PriceSpec       a spider builds the pricing block of an item from a     *)
(*                 page.                                                   *)
(* PipelineSpec    an item passes the pipelines of ITEM_PIPELINES.         *)
(* DriveSpec       a spider stores the drivetrain of an item, which then   *)
(*                 passes the pipelines.                                   *)
(* ParseSpec       parse_price, safe_int and CleanTextPipeline called      *)
(*                 with one value.                                         *)
(***************************************************************************)
EXTENDS Integers, Sequences, FiniteSets, Bags, TLC

\* ------------------------------------------------------------- bounds
MaxTasks == 2        \* spiders of one batch (dealers of a config)
MaxItems == 3        \* process_item calls of one batch
MaxBatches == 2      \* crawl runs that reuse the process
MaxProducers == 1    \* threads calling process_item (AppendRaceSpec)
MaxLate == 1         \* calls after finalize (MisuseSpec)
MaxPkgs == 3         \* package elements of one page (PriceSpec)
MaxPiped == 3        \* items handed to the pipelines (PipelineSpec)

Tasks == 1..MaxTasks
Producers == 1..MaxProducers
Refs == 1..(MaxTasks + MaxProducers + 1)

\* ------------------------------------------------------------ records
\* An optional value is <<>> (None) or <<v>>.
None == <<>>
Some(v) == <<v>>

\* The items the spiders yield, reduced to the two fields the collector and
\* the report order read: vin and total_price (items.py).  VINs are numbered
\* in ascending order.
Records ==
    { [vin |-> Some(1), total_price |-> Some(200)],
      [vin |-> Some(2), total_price |-> Some(100)],
      [vin |-> None,    total_price |-> Some(100)],
      [vin |-> Some(2), total_price |-> None] }

Range(s) == { s[i] : i \in 1..Len(s) }

RECURSIVE BagOf(_)
BagOf(s) == IF s = <<>> THEN EmptyBag ELSE BagOf(Tail(s)) (+) SetToBag({Head(s)})

\* ------------------------------------------------- pure parts of the code
\* The key of _write_report's sort: (total_price is None, total_price or 0).
PriceOrZeroKey(it) ==
    <<0, IF it.total_price = None THEN 0 ELSE it.total_price[1]>>
SortKey(it) ==
    IF it.total_price = None THEN <<1, 0>> ELSE <<0, it.total_price[1]>>

KeyLT(a, b) == a[1] < b[1] \/ (a[1] = b[1] /\ a[2] < b[2])

\* list.sort is stable: the place of the i-th item is after the items with a
\* smaller key and after the earlier items with the same key.
SortedPlace(s, i) ==
    1 + Cardinality({ j \in 1..Len(s) :
                        \/ KeyLT(SortKey(s[j]), SortKey(s[i]))
                        \/ (SortKey(s[j]) = SortKey(s[i]) /\ j < i) })

\* items.sort(key=...)
SortItems(s) ==
    [p \in 1..Len(s) |-> s[CHOOSE i \in 1..Len(s) : SortedPlace(s, i) = p]]

\* settings.getint(name, default)
IgnoreSetting(opt, default) == default
GetInt(opt, default) == IF opt = None THEN default ELSE opt[1]

DefaultSpiderCount == 1

\* process_item: _all_items.append(dict(item))
DropDuplicateItem(list, item) == IF item \in Range(list) THEN list ELSE Append(list, item)
DropSameVin(list, item) ==
    IF \E i \in 1..Len(list) : list[i].vin = item.vin THEN list ELSE Append(list, item)
AppendItem(list, item) == Append(list, item)

\* close_spider: _completed_count < _total_expected
InvertedComparison(count, total) == count > total
FinalizeOneEarly(count, total) == count + 1 < total
NeverFinalize(count, total) == count <= total
NotLastSpider(count, total) == count < total

\* close_spider: _completed_count = 0
KeepCount(count) == count
ResetCount(count) == 0

\* close_spider: if not items
AlwaysWrite(list) == FALSE
NoItems(list) == list = <<>>

VARIABLES
    settings,          \* the crawl command's settings: [count, hide]
    total_expected,    \* HtmlReportPipeline._total_expected
    completed_count,   \* HtmlReportPipeline._completed_count
    all_items,         \* HtmlReportPipeline._all_items: a reference into heap
    heap,              \* the list objects: reference -> sequence of items
    hide_dealer,       \* self.hide_dealer of each spider's pipeline instance of this run
    report,            \* what _write_report wrote since the batch was registered: <<>> or <<[rows, hide]>>
    log,               \* what the logger got since the batch was registered
    pc,                \* every spider's position
    tmp,               \* close_spider: the count loaded by `+= 1`
    items,             \* close_spider: the local `items` (a reference, 0 = unset)
    ppc,               \* every producer's position in process_item
    pref,              \* process_item: the list reference it loaded (0 = unset)
    prec,              \* process_item: the item it is appending
    batch,             \* history: the number of the batch in progress
    closeCalls,        \* history: close_spider calls of this batch
    batchAppends,      \* history: the items passed to process_item in this batch, in call order
    handed,            \* history: the hand-offs of this batch: [at, items]
    windowRecs,        \* history: items appended between `items = _all_items` and `_all_items = []`
    written,           \* history: items a statement-level close_spider rendered into a report
    late,              \* history: [closes, appends]: calls made after finalize
    spider,            \* the spider whose parse callback builds an item ("none": no page in hand)
    page,              \* what the callback reads from the response
    yielded,           \* the item the callback yields: <<>> or <<item>>
    inflight,          \* the item passing through the item pipelines: <<>> or <<item>>
    stage,             \* how many pipelines of the chain the item in flight has passed
    passed,            \* history: the pipelines the item in flight has passed, in order
    arg,               \* the value a price helper is called with
    outcome            \* None, or what the call did: the helper, the exception raised, the value returned

progVars == <<settings, total_expected, completed_count, all_items, heap,
              hide_dealer, report, log>>
taskVars == <<pc, tmp, items>>
prodVars == <<ppc, pref, prec>>
histVars == <<batch, closeCalls, batchAppends, handed, windowRecs, written, late>>
callVars == <<arg, outcome>>
extVars == <<spider, page, yielded, inflight, stage, passed, callVars>>
vars == <<progVars, taskVars, prodVars, histVars, extVars>>

AnyRecord == CHOOSE r \in Records : TRUE

\* The references that some variable still holds.
LiveRefs(ai, its, prf) ==
    {ai} \cup (({ its[t] : t \in Tasks } \cup { prf[p] : p \in Producers }) \ {0})

\* The reference of a new list object: the first one nothing refers to.
NewRef(live) ==
    CHOOSE r \in Refs : r \notin live /\ \A q \in Refs : q \notin live => r <= q

\* Objects nothing refers to are gone.
Collect(h, live) == [r \in Refs |-> IF r \in live THEN h[r] ELSE <<>>]

\* close_spider: _all_items = []
ClearInPlace(ref, live) == ref
ResetList(ref, live) == NewRef(live)

CollectorInit ==
    /\ settings = [count |-> None, hide |-> FALSE]
    /\ total_expected = DefaultSpiderCount
    /\ completed_count = 0
    /\ all_items = 1
    /\ heap = [r \in Refs |-> <<>>]
    /\ hide_dealer = [t \in Tasks |-> FALSE]
    /\ report = <<>>
    /\ log = <<>>
    /\ pc = [t \in Tasks |-> "absent"]
    /\ tmp = [t \in Tasks |-> 0]
    /\ items = [t \in Tasks |-> 0]
    /\ ppc = [p \in Producers |-> "idle"]
    /\ pref = [p \in Producers |-> 0]
    /\ prec = [p \in Producers |-> AnyRecord]
    /\ batch = 0
    /\ closeCalls = 0
    /\ batchAppends = <<>>
    /\ handed = <<>>
    /\ windowRecs = {}
    /\ written = {}
    /\ late = [closes |-> 0, appends |-> 0]

\* no page is being parsed and no item is on its way through the pipelines
NoItemInHand ==
    /\ spider = "none"
    /\ page = None
    /\ yielded = None
    /\ inflight = None
    /\ stage = 0
    /\ passed = <<>>
    /\ arg = None
    /\ outcome = None

Init == CollectorInit /\ NoItemInHand

\* No spider of the batch is still to start, running or inside a handler.
BatchIdle == \A t \in Tasks : pc[t] \in {"absent", "closed"}

\* The number of spiders the crawl command registered for the batch.
Registered == GetInt(settings.count, DefaultSpiderCount)

ViolationReported == \E i \in 1..Len(log) : log[i][1] = "contract_violation"

\* ---------------------------------------------------------------- cli.py
\* crawl: one run of the command.  Multi-dealer mode sets TOTAL_SPIDER_COUNT
\* to len(dealers) (at least one dealer, _load_config); single-dealer mode
\* leaves it unset and hides the dealer column.
Crawl(mode, n) ==
    /\ BatchIdle
    /\ \A p \in Producers : ppc[p] = "idle"
    /\ batch < MaxBatches
    /\ mode = "single" => n = 1
    /\ settings' = [count |-> IF mode = "single" THEN None ELSE Some(n),
                    hide |-> (mode = "single")]
    /\ pc' = [t \in Tasks |-> IF t <= n THEN "new" ELSE "absent"]
    /\ batch' = batch + 1
    /\ closeCalls' = 0
    /\ batchAppends' = <<>>
    /\ handed' = <<>>
    /\ hide_dealer' = [t \in Tasks |-> FALSE]
    /\ report' = <<>>
    /\ log' = <<>>
    /\ UNCHANGED <<total_expected, completed_count, all_items, heap,
                   tmp, items, prodVars, extVars, windowRecs, written, late>>

\* process.crawl(...) did not get as far as closing the spider.
CrawlFails(t) ==
    /\ pc[t] \in {"new", "open"}
    /\ pc' = [pc EXCEPT ![t] = "failed"]
    /\ UNCHANGED <<progVars, tmp, items, prodVars, extVars, histVars>>

\* ---------------------------------------------------------- pipelines.py
\* HtmlReportPipeline.from_crawler
from_crawler(t) ==
    /\ pc[t] = "new"
    /\ total_expected' = GetInt(settings.count, DefaultSpiderCount)
    /\ hide_dealer' = [hide_dealer EXCEPT ![t] = settings.hide]
    /\ pc' = [pc EXCEPT ![t] = "open"]
    /\ UNCHANGED <<settings, completed_count, all_items, heap, report, log,
                   tmp, items, prodVars, extVars, histVars>>

\* HtmlReportPipeline.process_item, one call
process_item(t, item) ==
    /\ pc[t] = "open"
    /\ Len(batchAppends) < MaxItems
    /\ heap' = [heap EXCEPT ![all_items] = AppendItem(@, item)]
    /\ batchAppends' = Append(batchAppends, item)
    /\ UNCHANGED <<settings, total_expected, completed_count, all_items,
                   hide_dealer, report, log, taskVars, prodVars, extVars,
                   batch, closeCalls, handed, windowRecs, written, late>>

\* The body of HtmlReportPipeline.close_spider, statement by statement, as
\* instance t runs it in one piece.
CloseBody(t) ==
    LET count1 == completed_count + 1
    IN  IF NotLastSpider(count1, total_expected)
        THEN /\ completed_count' = count1
             /\ log' = Append(log, <<"progress", t, Len(heap[all_items]),
                                     count1, total_expected>>)
             /\ UNCHANGED <<all_items, heap, report, handed, written>>
        ELSE LET items_ref == all_items
                 new_ref == ResetList(all_items, LiveRefs(all_items, items, pref))
                 heap1 == [heap EXCEPT ![new_ref] = <<>>]
                 got == heap1[items_ref]
             IN  /\ all_items' = new_ref
                 /\ completed_count' = ResetCount(count1)
                 /\ handed' = Append(handed, [at |-> closeCalls + 1, items |-> got])
                 /\ heap' = Collect(heap1, LiveRefs(new_ref, items, pref))
                 /\ IF NoItems(got)
                    THEN /\ log' = Append(log, <<"no_items">>)
                         /\ UNCHANGED <<report, written>>
                    ELSE /\ report' = <<[rows |-> SortItems(got),
                                         hide |-> hide_dealer[t]]>>
                         /\ log' = log
                         /\ UNCHANGED written

\* HtmlReportPipeline.close_spider, called by Scrapy when spider t closes
close_spider(t) ==
    /\ pc[t] = "open"
    /\ pc' = [pc EXCEPT ![t] = "closed"]
    /\ closeCalls' = closeCalls + 1
    /\ CloseBody(t)
    /\ UNCHANGED <<settings, total_expected, hide_dealer, tmp, items, prodVars, extVars,
                   batch, batchAppends, windowRecs, late>>

Next ==
    \/ \E mode \in {"single", "multi"}, n \in Tasks : Crawl(mode, n)
    \/ \E t \in Tasks : CrawlFails(t)
    \/ \E t \in Tasks : from_crawler(t)
    \/ \E t \in Tasks, item \in Records : process_item(t, item)
    \/ \E t \in Tasks : close_spider(t)

Spec == Init /\ [][Next]_vars

\* Scrapy creates the pipeline of every spider of the batch and calls
\* close_spider for every spider it opened, unless the crawl fails first.
\* from_crawler(t) is the only step that takes pc[t] from "new" to "open" and
\* close_spider(t) the only one that takes it from "open" to "closed".
Opens(t) == pc[t] = "new" /\ pc' = [pc EXCEPT ![t] = "open"]
Closes(t) == pc[t] = "open" /\ pc' = [pc EXCEPT ![t] = "closed"]

LiveSpec ==
    /\ Spec
    /\ \A t \in Tasks : WF_pc(Opens(t)) /\ WF_pc(Closes(t))

\* ------------------------------------------- callers breaking the protocol
\* close_spider called once more after every spider of the batch has closed.
LateCloseSpider(t) ==
    /\ batch >= 1 /\ BatchIdle
    /\ pc[t] = "closed"
    /\ late.closes < MaxLate
    /\ late' = [late EXCEPT !.closes = @ + 1]
    /\ closeCalls' = closeCalls + 1
    /\ CloseBody(t)
    /\ UNCHANGED <<settings, total_expected, hide_dealer, taskVars, prodVars, extVars,
                   batch, batchAppends, windowRecs>>

\* process_item called after every spider of the batch has closed.
LateProcessItem(t, item) ==
    /\ batch >= 1 /\ BatchIdle
    /\ pc[t] = "closed"
    /\ late.appends < MaxLate
    /\ late' = [late EXCEPT !.appends = @ + 1]
    /\ heap' = [heap EXCEPT ![all_items] = AppendItem(@, item)]
    /\ UNCHANGED <<settings, total_expected, completed_count, all_items,
                   hide_dealer, report, log, taskVars, prodVars, extVars,
                   batch, closeCalls, batchAppends, handed, windowRecs, written>>

MisuseNext ==
    \/ Next
    \/ \E t \in Tasks : LateCloseSpider(t)
    \/ \E t \in Tasks, item \in Records : LateProcessItem(t, item)

MisuseSpec == Init /\ [][MisuseNext]_vars

\* ------------------------------------ close_spider, statement by statement
\* process_item called from producer threads that can be preempted between
\* reading the attribute _all_items and the call of append; the items they
\* pass are pairwise different, so that an item can be followed.
\* The items the producers pass: three of the records, pairwise different.
ProducerItems == { r \in Records : r.vin # None }

CloseSteps == {"L123", "L124", "L134", "L136", "L137", "L139", "L143"}

NoCloseActive == \A t \in Tasks : pc[t] \notin CloseSteps

InHeap(item) == \E r \in Refs : item \in Range(heap[r])

\* process_item: the evaluation of HtmlReportPipeline._all_items
pi_load(p, item) ==
    /\ batch >= 1
    /\ ppc[p] = "idle"
    /\ Len(batchAppends) + Cardinality({ q \in Producers : ppc[q] = "loaded" }) < MaxItems
    /\ item \notin written /\ ~InHeap(item)
    /\ \A q \in Producers : ppc[q] = "loaded" => prec[q] # item
    /\ ppc' = [ppc EXCEPT ![p] = "loaded"]
    /\ pref' = [pref EXCEPT ![p] = all_items]
    /\ prec' = [prec EXCEPT ![p] = item]
    /\ UNCHANGED <<progVars, taskVars, histVars, extVars>>

\* process_item: .append(dict(item)) on the list that was read
pi_append(p) ==
    /\ ppc[p] = "loaded"
    /\ ppc' = [ppc EXCEPT ![p] = "idle"]
    /\ pref' = [pref EXCEPT ![p] = 0]
    /\ prec' = [prec EXCEPT ![p] = AnyRecord]
    /\ heap' = Collect([heap EXCEPT ![pref[p]] = AppendItem(@, prec[p])],
                       LiveRefs(all_items, items, pref'))
    /\ batchAppends' = Append(batchAppends, prec[p])
    /\ windowRecs' = IF pref[p] = all_items /\ \E t \in Tasks : pc[t] = "L136"
                     THEN windowRecs \cup {prec[p]} ELSE windowRecs
    /\ UNCHANGED <<settings, total_expected, completed_count, all_items,
                   hide_dealer, report, log, taskVars, extVars,
                   batch, closeCalls, handed, written, late>>

\* line 123, _completed_count += 1: the read
cs_load_count(t) ==
    /\ pc[t] = "open"
    /\ tmp' = [tmp EXCEPT ![t] = completed_count]
    /\ pc' = [pc EXCEPT ![t] = "L123"]
    /\ closeCalls' = closeCalls + 1
    /\ UNCHANGED <<progVars, items, prodVars, extVars,
                   batch, batchAppends, handed, windowRecs, written, late>>

\* line 123, _completed_count += 1: the write
cs_store_count(t) ==
    /\ pc[t] = "L123"
    /\ completed_count' = tmp[t] + 1
    /\ tmp' = [tmp EXCEPT ![t] = 0]
    /\ pc' = [pc EXCEPT ![t] = "L124"]
    /\ UNCHANGED <<settings, total_expected, all_items, heap, hide_dealer,
                   report, log, items, prodVars, extVars, histVars>>

\* lines 124-132
cs_compare(t) ==
    /\ pc[t] = "L124"
    /\ IF NotLastSpider(completed_count, total_expected)
       THEN /\ log' = Append(log, <<"progress", t, Len(heap[all_items]),
                                    completed_count, total_expected>>)
            /\ pc' = [pc EXCEPT ![t] = "closed"]
       ELSE /\ pc' = [pc EXCEPT ![t] = "L134"]
            /\ log' = log
    /\ UNCHANGED <<settings, total_expected, completed_count, all_items, heap,
                   hide_dealer, report, tmp, items, prodVars, extVars, histVars>>

\* line 134: items = HtmlReportPipeline._all_items
cs_take_items(t) ==
    /\ pc[t] = "L134"
    /\ items' = [items EXCEPT ![t] = all_items]
    /\ pc' = [pc EXCEPT ![t] = "L136"]
    /\ UNCHANGED <<progVars, tmp, prodVars, extVars, histVars>>

\* line 136: HtmlReportPipeline._all_items = []
cs_reset_items(t) ==
    /\ pc[t] = "L136"
    /\ LET new_ref == ResetList(all_items, LiveRefs(all_items, items, pref))
       IN  /\ all_items' = new_ref
           /\ heap' = [heap EXCEPT ![new_ref] = <<>>]
    /\ pc' = [pc EXCEPT ![t] = "L137"]
    /\ UNCHANGED <<settings, total_expected, completed_count, hide_dealer,
                   report, log, tmp, items, prodVars, extVars, histVars>>

\* line 137: HtmlReportPipeline._completed_count = 0
cs_reset_count(t) ==
    /\ pc[t] = "L137"
    /\ completed_count' = ResetCount(completed_count)
    /\ pc' = [pc EXCEPT ![t] = "L139"]
    /\ UNCHANGED <<settings, total_expected, all_items, heap, hide_dealer,
                   report, log, tmp, items, prodVars, extVars, histVars>>

\* lines 139-141: if not items
cs_check_empty(t) ==
    /\ pc[t] = "L139"
    /\ handed' = Append(handed, [at |-> closeCalls, items |-> heap[items[t]]])
    /\ IF NoItems(heap[items[t]])
       THEN /\ log' = Append(log, <<"no_items">>)
            /\ pc' = [pc EXCEPT ![t] = "closed"]
            /\ items' = [items EXCEPT ![t] = 0]
            /\ heap' = Collect(heap, LiveRefs(all_items, items', pref))
       ELSE /\ pc' = [pc EXCEPT ![t] = "L143"]
            /\ UNCHANGED <<log, items, heap>>
    /\ UNCHANGED <<settings, total_expected, completed_count, all_items,
                   hide_dealer, report, tmp, prodVars, extVars,
                   batch, closeCalls, batchAppends, windowRecs, written, late>>

\* line 143 and _write_report: the list is sorted in place and rendered
cs_write_report(t) ==
    /\ pc[t] = "L143"
    /\ report' = <<[rows |-> SortItems(heap[items[t]]), hide |-> hide_dealer[t]]>>
    /\ written' = written \cup Range(heap[items[t]])
    /\ items' = [items EXCEPT ![t] = 0]
    /\ heap' = Collect([heap EXCEPT ![items[t]] = SortItems(@)],
                       LiveRefs(all_items, items', pref))
    /\ pc' = [pc EXCEPT ![t] = "closed"]
    /\ UNCHANGED <<settings, total_expected, completed_count, all_items,
                   hide_dealer, log, tmp, prodVars, extVars,
                   batch, closeCalls, batchAppends, handed, windowRecs, late>>

\* One close_spider call at a time, process_item at any point of it.
AppendRaceNext ==
    \/ \E mode \in {"single", "multi"}, n \in Tasks : Crawl(mode, n)
    \/ \E t \in Tasks : from_crawler(t)
    \/ \E p \in Producers, item \in ProducerItems : pi_load(p, item)
    \/ \E p \in Producers : pi_append(p)
    \/ \E t \in Tasks : NoCloseActive /\ cs_load_count(t)
    \/ \E t \in Tasks : cs_store_count(t)
    \/ \E t \in Tasks : cs_compare(t)
    \/ \E t \in Tasks : cs_take_items(t)
    \/ \E t \in Tasks : cs_reset_items(t)
    \/ \E t \in Tasks : cs_reset_count(t)
    \/ \E t \in Tasks : cs_check_empty(t)
    \/ \E t \in Tasks : cs_write_report(t)

AppendRaceSpec == Init /\ [][AppendRaceNext]_vars

\* ------------------------------------------- close_spider calls that race
\* The handlers hold no lock (pipelines.py has none): if they are called from
\* threads, every close_spider call can be preempted after each statement,
\* also by another close_spider call, and process_item between its two steps.
ThreadNext ==
    \/ \E mode \in {"single", "multi"}, n \in Tasks : Crawl(mode, n)
    \/ \E t \in Tasks : from_crawler(t)
    \/ \E p \in Producers, item \in ProducerItems : pi_load(p, item)
    \/ \E p \in Producers : pi_append(p)
    \/ \E t \in Tasks : cs_load_count(t)
    \/ \E t \in Tasks : cs_store_count(t)
    \/ \E t \in Tasks : cs_compare(t)
    \/ \E t \in Tasks : cs_take_items(t)
    \/ \E t \in Tasks : cs_reset_items(t)
    \/ \E t \in Tasks : cs_reset_count(t)
    \/ \E t \in Tasks : cs_check_empty(t)
    \/ \E t \in Tasks : cs_write_report(t)

ThreadSpec == Init /\ [][ThreadNext]_vars

StartAtOnce(t) == TRUE

\* ------------------------------------------------- cli.py, one spider at a time
\* The spider of dealer t is the next of dealer_iter once the dealers before
\* it were taken; the chain goes on from the callback of the previous crawl.
ChainReaches(t) == \A u \in Tasks : u < t => pc[u] = "closed"

\* _start_next_spider: process.crawl creates the crawler of the next dealer
start_next_spider(t) ==
    /\ ChainReaches(t)
    /\ from_crawler(t)

\* process.crawl raises, or its deferred fails: addCallback has no errback
CrawlOfNextFails(t) ==
    /\ ChainReaches(t)
    /\ CrawlFails(t)

CliNext ==
    \/ \E mode \in {"single", "multi"}, n \in Tasks : Crawl(mode, n)
    \/ \E t \in Tasks : start_next_spider(t)
    \/ \E t \in Tasks : CrawlOfNextFails(t)
    \/ \E t \in Tasks, item \in Records : process_item(t, item)
    \/ \E t \in Tasks : close_spider(t)

CliSpec == Init /\ [][CliNext]_vars

\* the reactor runs a crawl that can start, and a spider that was opened
\* finishes its requests and is closed
StartsNext(t) == ChainReaches(t) /\ Opens(t)

CliLiveSpec ==
    CliSpec /\ \A t \in Tasks : WF_pc(StartsNext(t)) /\ WF_pc(Closes(t))

\* ------------------------------------------------ values read from a page
\* A string is a sequence of characters.  A value of the page or of its JSON
\* data is None, Some(Str(text)) or Some(Num(n)); a parsed price is None or
\* Some(n).
Str(text) == [type |-> "str", val |-> text]
Num(n) == [type |-> "int", val |-> n]

DigitChars == <<"0", "1", "2", "3", "4", "5", "6", "7", "8", "9">>

IsDigit(c) == \E d \in 1..10 : DigitChars[d] = c

DigitValue(c) == (CHOOSE d \in 1..10 : DigitChars[d] = c) - 1

\* str(n) of a non-negative int
RECURSIVE DecimalText(_)
DecimalText(n) ==
    IF n < 10 THEN <<DigitChars[n + 1]>>
    ELSE DecimalText(n \div 10) \o <<DigitChars[(n % 10) + 1]>>

\* str(s)
StrOf(v) ==
    IF v.type = "str" THEN v.val
    ELSE IF v.val < 0 THEN <<"-">> \o DecimalText(0 - v.val) ELSE DecimalText(v.val)

\* re.sub(r"[^\d]", "", text)
RECURSIVE OnlyDigits(_)
OnlyDigits(text) ==
    IF text = <<>> THEN <<>>
    ELSE (IF IsDigit(Head(text)) THEN <<Head(text)>> ELSE <<>>) \o OnlyDigits(Tail(text))

\* int(digits) of a non-empty string of digits
RECURSIVE IntOfDigits(_)
IntOfDigits(ds) ==
    IF ds = <<>> THEN 0
    ELSE 10 * IntOfDigits(SubSeq(ds, 1, Len(ds) - 1)) + DigitValue(ds[Len(ds)])

\* `not s` for a value of the page: None, "" and 0 are falsy
Falsy(s) ==
    \/ s = None
    \/ s[1].type = "str" /\ s[1].val = <<>>
    \/ s[1].type = "int" /\ s[1].val = 0

\* `not n` for a parsed price
NoPrice(n) == n = None \/ n[1] = 0

\* a or b, for parsed prices
OrElse(a, b) == IF NoPrice(a) THEN b ELSE a

\* n or None, n or 0
ZeroKept(n) == Some(n)
IntOrNone(n) == IF n = 0 THEN None ELSE Some(n)
PriceOrZero(n) == IF NoPrice(n) THEN 0 ELSE n[1]

\* parsing_helpers.parse_price
parse_price(s) ==
    IF Falsy(s) THEN None
    ELSE LET digits == OnlyDigits(StrOf(s[1]))
         IN  IF digits # <<>> /\ IntOfDigits(digits) # 0
             THEN Some(IntOfDigits(digits)) ELSE None

\* int(val) succeeds on an int and on a string that is an int literal
IsIntLiteral(text) ==
    LET body == IF text # <<>> /\ Head(text) \in {"-", "+"} THEN Tail(text) ELSE text
    IN  body # <<>> /\ \A i \in 1..Len(body) : IsDigit(body[i])

IntOfLiteral(text) ==
    IF Head(text) = "-" THEN 0 - IntOfDigits(Tail(text))
    ELSE IF Head(text) = "+" THEN IntOfDigits(Tail(text))
    ELSE IntOfDigits(text)

\* What a call did: the exception it raised ("none" when it returned) and
\* the value it returned.
Returned(value) == [raised |-> "none", value |-> value]
Raised(exception) == [raised |-> exception, value |-> None]

\* int(val), for an int or a str
IntCall(v) ==
    IF v.type = "int" THEN Returned(v.val)
    ELSE IF IsIntLiteral(v.val) THEN Returned(IntOfLiteral(v.val))
    ELSE Raised("ValueError")

CatchNothing == {}

\* safe_int: except (ValueError, TypeError)
SafeIntCatches == {"ValueError", "TypeError"}

\* parsing_helpers.safe_int, with the exception that leaves it
safe_int_call(v) ==
    IF v = None THEN Returned(None)
    ELSE LET result == IntCall(v[1])
         IN  IF result.raised = "none" THEN Returned(IntOrNone(result.value))
             ELSE IF result.raised \in SafeIntCatches THEN Returned(parse_price(v))
             ELSE result

\* parsing_helpers.safe_int
safe_int(v) == safe_int_call(v).value

\* f"{n:,}": a comma before every group of three digits
RECURSIVE Grouped(_)
Grouped(ds) ==
    IF Len(ds) <= 3 THEN ds
    ELSE Grouped(SubSeq(ds, 1, Len(ds) - 3)) \o <<",">> \o SubSeq(ds, Len(ds) - 2, Len(ds))

\* parsing_helpers.format_pkg_price
format_pkg_price(price) ==
    IF price = None THEN None
    ELSE LET parsed == parse_price(price)
         IN  IF parsed # None
             THEN Some(Str(<<"$">> \o Grouped(DecimalText(parsed[1]))))
             ELSE Some(Str(StrOf(price[1])))

\* The name of a package: the words it is made of (kind: whether they are
\* those of a name of EXCLUDED_PACKAGES, of the spider's
\* _DEALER_ACCESSORY_NAMES, or of neither), the case it is written in and the
\* number of periods that follow it.
PkgName(kind, case, dots) == [kind |-> kind, case |-> case, dots |-> dots]

Upper(name) == [name EXCEPT !.case = "upper"]
Lower(name) == [name EXCEPT !.case = "lower"]

\* parsing_helpers.normalize_pkg_name: .strip().rstrip(".")
normalize_pkg_name(name) == [name EXCEPT !.dots = 0]

\* parsing_helpers.EXCLUDED_PACKAGES: "50 state emissions"
EXCLUDED_PACKAGES == { PkgName("excluded", "lower", 0) }

\* _DEALER_ACCESSORY_NAMES of a spider: names in lower case
DEALER_ACCESSORY_NAMES == { PkgName("accessory", "lower", 0) }

is_dealer_accessory(name) == Lower(normalize_pkg_name(name)) \in DEALER_ACCESSORY_NAMES

\* name.upper() in EXCLUDED_PACKAGES
IsExcluded(name) == Upper(name) \in EXCLUDED_PACKAGES

\* sum(parse_price(p.get("price")) or 0 for p in packages)
RECURSIVE SumOfPrices(_)
SumOfPrices(pkgs) ==
    IF pkgs = <<>> THEN 0
    ELSE PriceOrZero(parse_price(Head(pkgs).price)) + SumOfPrices(Tail(pkgs))

\* packages or None
ListOrNone(list) == IF list = <<>> THEN None ELSE Some(list)

\* price_str or None
StrOrNone(s) == IF Falsy(s) THEN None ELSE s

\* ------------------------------------------- the pricing block of an item
\* What a detail page (an Algolia hit for dealerinspire) supplies:
\*   packages        the package elements: [name, price]
\*   msrp            the spider's first source of the sticker price
\*   msrp_fallback   its next source (data-msrp, the JSON-LD offers price)
\*   price           its first source of the advertised price
\*   price_fallback  its next source other than the JSON-LD offers price
\*   adjustment      the "Dealer Adjustment" line: None or Some([value, isDiscount])
\*   accessories     the "Dealer Accessories" line
\* A field that a spider never sets reads as None in the item.
CarItem(pkgs, acc, msrp, pkgs_total, base, total, adj) ==
    [packages |-> pkgs, dealer_accessories |-> acc, msrp |-> msrp,
     total_packages_price |-> pkgs_total, base_price |-> base,
     total_price |-> total, adjustments |-> adj]

\* `not name`: the element has no name text
IsEmptyName(name) == name.kind = "empty" /\ name.dots = 0

Entries(raw) == [i \in 1..Len(raw) |-> [name |-> raw[i].name, price |-> StrOrNone(raw[i].price)]]

EveryEntry(entries) == entries

FactoryOf(entries) == SelectSeq(entries, LAMBDA e : ~is_dealer_accessory(e.name))
AccessoriesOf(entries) == SelectSeq(entries, LAMBDA e : is_dealer_accessory(e.name))

\* What a spider's loop over the package elements has done with them: the
\* elements it skipped (`continue`), the entries it appended to packages and
\* those it appended to dealer_acc_packages.
Buckets(dropped, packages, dealer_acc_packages) ==
    [dropped |-> dropped, packages |-> packages, dealer_acc_packages |-> dealer_acc_packages]

\* dealeron.py, parse_detail lines 199-211
DealerOnPackages(raw) ==
    LET skip(p) == IsEmptyName(p.name) \/ IsExcluded(p.name)
        kept == Entries(SelectSeq(raw, LAMBDA p : ~skip(p)))
    IN  Buckets(SelectSeq(raw, skip), FactoryOf(kept), AccessoriesOf(kept))

\* dealercom.py, parse_detail lines 220-247
DealerComPackages(raw) ==
    LET skip(p) == IsEmptyName(normalize_pkg_name(p.name))
        named == SelectSeq(raw, LAMBDA p : ~skip(p))
        all_raw_packages ==
            [i \in 1..Len(named) |->
                [name |-> normalize_pkg_name(named[i].name),
                 price |-> format_pkg_price(named[i].price)]]
    IN  Buckets(SelectSeq(raw, skip), FactoryOf(all_raw_packages),
                AccessoriesOf(all_raw_packages))

\* dealereprocess.py, parse_detail lines 198-213
DealerEprocessPackages(raw) ==
    LET skip(p) == IsEmptyName(p.name) \/ IsExcluded(p.name)
        kept == SelectSeq(raw, LAMBDA p : ~skip(p))
        pkgs == [i \in 1..Len(kept) |->
                    [name |-> normalize_pkg_name(kept[i].name),
                     price |-> IF Falsy(kept[i].price) THEN None
                               ELSE format_pkg_price(kept[i].price)]]
        split == [i \in 1..Len(kept) |-> [pkg |-> pkgs[i], raw_name |-> kept[i].name]]
        f == SelectSeq(split, LAMBDA x : ~is_dealer_accessory(x.raw_name))
        a == SelectSeq(split, LAMBDA x : is_dealer_accessory(x.raw_name))
    IN  Buckets(SelectSeq(raw, skip), [i \in 1..Len(f) |-> f[i].pkg],
                [i \in 1..Len(a) |-> a[i].pkg])

\* dealervenom.py, parse_detail lines 215-224
DealerVenomPackages(raw) ==
    LET skip(p) == IsEmptyName(p.name) \/ IsExcluded(p.name)
    IN  Buckets(SelectSeq(raw, skip), Entries(SelectSeq(raw, LAMBDA p : ~skip(p))), <<>>)

\* teamvelocity.py, _extract_packages lines 402-417
TeamVelocityPackages(raw) ==
    LET skip(p) == IsEmptyName(p.name) \/ IsExcluded(normalize_pkg_name(p.name))
        kept == SelectSeq(raw, LAMBDA p : ~skip(p))
    IN  Buckets(SelectSeq(raw, skip),
                [i \in 1..Len(kept) |->
                    [name |-> normalize_pkg_name(kept[i].name), price |-> None]],
                <<>>)

\* (msrp - total_packages_price) if msrp else None
BasePrice(msrp, total_packages_price) ==
    IF NoPrice(msrp) THEN None ELSE Some(msrp[1] - total_packages_price)

\* dealeron.py, parse_detail lines 198-252
DealerOnItem(pg) ==
    LET loop == DealerOnPackages(pg.packages)
        packages == loop.packages
        dealer_acc_total == SumOfPrices(loop.dealer_acc_packages)
        msrp == OrElse(parse_price(pg.msrp), parse_price(pg.msrp_fallback))
        total_packages_price == SumOfPrices(packages)
        total_price == OrElse(OrElse(parse_price(pg.price), parse_price(pg.price_fallback)), msrp)
    IN  CarItem(ListOrNone(packages), IntOrNone(dealer_acc_total), msrp,
                IntOrNone(total_packages_price),
                BasePrice(msrp, total_packages_price), total_price,
                IF ~NoPrice(msrp) /\ ~NoPrice(total_price) /\ total_price # msrp
                THEN IntOrNone(total_price[1] - msrp[1] - dealer_acc_total)
                ELSE None)

\* dealercom.py, parse_detail lines 220-292
DealerComItem(pg) ==
    LET loop == DealerComPackages(pg.packages)
        packages == loop.packages
        json_ld_price == parse_price(pg.msrp_fallback)
        msrp == OrElse(parse_price(pg.msrp), json_ld_price)
        total_packages_price == SumOfPrices(packages)
        dealer_acc_from_pkgs == SumOfPrices(loop.dealer_acc_packages)
        dealer_acc == OrElse(parse_price(pg.accessories), IntOrNone(dealer_acc_from_pkgs))
        total_price == OrElse(OrElse(parse_price(pg.price), json_ld_price), msrp)
        discount == IF pg.adjustment = None THEN None
                    ELSE parse_price(pg.adjustment[1].value)
        adj == IF ~NoPrice(discount) /\ pg.adjustment[1].isDiscount
               THEN Some(0 - discount[1])
               ELSE IF ~NoPrice(msrp) /\ ~NoPrice(total_price) /\ total_price[1] < msrp[1]
               THEN Some(total_price[1] - msrp[1])
               ELSE None
    IN  CarItem(ListOrNone(packages), dealer_acc, msrp,
                IntOrNone(total_packages_price),
                BasePrice(msrp, total_packages_price), total_price, adj)

\* dealereprocess.py, parse_detail lines 198-252
DealerEprocessItem(pg) ==
    LET loop == DealerEprocessPackages(pg.packages)
        packages == loop.packages
        total_packages_price == SumOfPrices(packages)
        msrp == OrElse(parse_price(pg.msrp), parse_price(pg.msrp_fallback))
        total_price == OrElse(OrElse(parse_price(pg.price), parse_price(pg.price_fallback)), msrp)
    IN  CarItem(ListOrNone(packages), IntOrNone(SumOfPrices(loop.dealer_acc_packages)),
                msrp, IntOrNone(total_packages_price),
                BasePrice(msrp, total_packages_price), total_price,
                IF ~NoPrice(msrp) /\ ~NoPrice(total_price) /\ total_price # msrp
                THEN Some(total_price[1] - msrp[1])
                ELSE None)

\* dealervenom.py, parse_detail lines 215-256
DealerVenomItem(pg) ==
    LET packages == DealerVenomPackages(pg.packages).packages
        msrp == OrElse(safe_int(pg.msrp), parse_price(pg.msrp_fallback))
        total_packages_price == SumOfPrices(packages)
        total_price == OrElse(OrElse(safe_int(pg.price), parse_price(pg.price_fallback)), msrp)
    IN  CarItem(ListOrNone(packages), None, msrp, IntOrNone(total_packages_price),
                BasePrice(msrp, total_packages_price), total_price,
                IF ~NoPrice(msrp) /\ ~NoPrice(total_price) /\ total_price # msrp
                THEN Some(total_price[1] - msrp[1])
                ELSE None)

\* teamvelocity.py, parse_detail lines 227-246 and _extract_packages
TeamVelocityItem(pg) ==
    LET packages == TeamVelocityPackages(pg.packages).packages
        msrp == OrElse(parse_price(pg.msrp), parse_price(pg.msrp_fallback))
    IN  CarItem(ListOrNone(packages), None, msrp, None, msrp, msrp, None)

\* dealerinspire.py, _algolia_hit_to_item lines 411-422
DealerInspireItem(pg) ==
    LET msrp == parse_price(pg.msrp)
        our_price == IF pg.price # None /\ pg.price[1].type = "int"
                     THEN Some(pg.price[1].val)
                     ELSE parse_price(pg.price)
    IN  CarItem(None, None, msrp, None, None, OrElse(our_price, msrp), None)

Spiders == {"dealeron", "dealercom", "dealereprocess", "dealervenom",
            "teamvelocity", "dealerinspire"}

\* the text of an element of the page
HtmlPrices ==
    { None, Some(Str(<<"$", "0">>)), Some(Str(<<"3">>)), Some(Str(<<"$", "5">>)) }

\* a value of the page's JSON data
JsonPrices == HtmlPrices \cup { Some(Num(4)), Some(Str(<<"-", "2">>)) }

MsrpFallbacks == { None, Some(Str(<<"5">>)) }
PriceFallbacks == { None, Some(Str(<<"7">>)) }
AdjustmentLines ==
    { None, Some([value |-> Some(Str(<<"$", "1">>)), isDiscount |-> TRUE]),
            Some([value |-> Some(Str(<<"$", "1">>)), isDiscount |-> FALSE]) }
AccessoryLines == { None, Some(Str(<<"2">>)) }

PagePackages ==
    { [name |-> PkgName("factory", "title", 0),   price |-> Some(Str(<<"$", "1">>))],
      [name |-> PkgName("factory", "title", 1),   price |-> Some(Str(<<"2">>))],
      [name |-> PkgName("accessory", "title", 1), price |-> Some(Str(<<"$", "2">>))],
      [name |-> PkgName("excluded", "title", 0),  price |-> Some(Str(<<>>))],
      [name |-> PkgName("empty", "title", 0),     price |-> Some(Str(<<"$", "1">>))] }

ListsUpTo(S, n) == UNION { [1..k -> S] : k \in 0..n }

Page(packages, msrp, msrp_fallback, price, price_fallback, adjustment, accessories) ==
    [packages |-> packages, msrp |-> msrp, msrp_fallback |-> msrp_fallback,
     price |-> price, price_fallback |-> price_fallback,
     adjustment |-> adjustment, accessories |-> accessories]

\* The pages a spider can be given: the fields it does not read are None.
Pages(sp) ==
    LET lists == ListsUpTo(PagePackages, MaxPkgs)
    IN  CASE sp = "dealeron" ->
               { Page(l, m, mf, p, pf, None, None) :
                   l \in lists, m \in HtmlPrices, mf \in MsrpFallbacks,
                   p \in HtmlPrices, pf \in PriceFallbacks }
          [] sp = "dealercom" ->
               { Page(l, m, mf, p, None, a, acc) :
                   l \in lists, m \in HtmlPrices, mf \in MsrpFallbacks,
                   p \in HtmlPrices, a \in AdjustmentLines, acc \in AccessoryLines }
          [] sp = "dealereprocess" ->
               { Page(l, m, mf, p, pf, None, None) :
                   l \in lists, m \in HtmlPrices, mf \in MsrpFallbacks,
                   p \in HtmlPrices, pf \in PriceFallbacks }
          [] sp = "dealervenom" ->
               { Page(l, m, mf, p, pf, None, None) :
                   l \in lists, m \in JsonPrices, mf \in MsrpFallbacks,
                   p \in JsonPrices, pf \in PriceFallbacks }
          [] sp = "teamvelocity" ->
               { Page(l, m, mf, None, None, None, None) :
                   l \in lists, m \in HtmlPrices, mf \in MsrpFallbacks }
          [] sp = "dealerinspire" ->
               { Page(<<>>, m, None, p, None, None, None) :
                   m \in JsonPrices, p \in JsonPrices }

\* One page is given to one spider.
PriceInit ==
    /\ CollectorInit
    /\ spider \in Spiders
    /\ page \in Pages(spider)
    /\ yielded = None
    /\ inflight = None
    /\ stage = 0
    /\ passed = <<>>
    /\ arg = None
    /\ outcome = None

Yield(sp, made) ==
    /\ spider = sp
    /\ yielded = None
    /\ yielded' = Some(made)
    /\ UNCHANGED <<progVars, taskVars, prodVars, histVars,
                   spider, page, inflight, stage, passed, callVars>>

DealerOn_parse_detail == Yield("dealeron", DealerOnItem(page))
DealerCom_parse_detail == Yield("dealercom", DealerComItem(page))
DealerEprocess_parse_detail == Yield("dealereprocess", DealerEprocessItem(page))
DealerVenom_parse_detail == Yield("dealervenom", DealerVenomItem(page))
TeamVelocity_parse_detail == Yield("teamvelocity", TeamVelocityItem(page))
DealerInspire_hit_to_item == Yield("dealerinspire", DealerInspireItem(page))

PriceNext ==
    \/ DealerOn_parse_detail
    \/ DealerCom_parse_detail
    \/ DealerEprocess_parse_detail
    \/ DealerVenom_parse_detail
    \/ TeamVelocity_parse_detail
    \/ DealerInspire_hit_to_item

PriceSpec == PriceInit /\ [][PriceNext]_vars

\* --------------------------------------------------- the item pipelines
PipelineClasses == {"CleanTextPipeline", "TimestampPipeline", "JsonReportPipeline"}

TimestampAfterReport(cls) ==
    CASE cls = "CleanTextPipeline" -> 100
      [] cls = "TimestampPipeline" -> 950
      [] cls = "JsonReportPipeline" -> 900

\* settings.ITEM_PIPELINES: the number given to each class
Priority(cls) ==
    CASE cls = "CleanTextPipeline" -> 100
      [] cls = "TimestampPipeline" -> 200
      [] cls = "JsonReportPipeline" -> 900

\* the pipelines are called in ascending order of their numbers
PipelineChain ==
    [p \in 1..Cardinality(PipelineClasses) |->
        CHOOSE c \in PipelineClasses :
            Cardinality({ d \in PipelineClasses : Priority(d) < Priority(c) }) = p - 1]

IsSpace(c) == c \in {" ", "\t", "\n"}

\* lstrip
RECURSIVE DropSpaces(_)
DropSpaces(text) ==
    IF text # <<>> /\ IsSpace(Head(text)) THEN DropSpaces(Tail(text)) ELSE text

\* rstrip
RECURSIVE DropTrailingSpaces(_)
DropTrailingSpaces(text) ==
    IF text # <<>> /\ IsSpace(text[Len(text)])
    THEN DropTrailingSpaces(SubSeq(text, 1, Len(text) - 1)) ELSE text

\* re.sub(r"\s+", " ", value)
RECURSIVE CollapseSpaces(_)
CollapseSpaces(text) ==
    IF text = <<>> THEN <<>>
    ELSE IF IsSpace(Head(text)) THEN <<" ">> \o CollapseSpaces(DropSpaces(Tail(text)))
    ELSE <<Head(text)>> \o CollapseSpaces(Tail(text))

\* re.sub(r"\s+", " ", value).strip() if the value is a str
CleanField(value) ==
    IF value = None THEN None
    ELSE Some(DropTrailingSpaces(DropSpaces(CollapseSpaces(value[1]))))

\* str.upper, on the letters
UpperChar(c) ==
    CASE c = "a" -> "A" [] c = "b" -> "B" [] c = "c" -> "C" [] c = "d" -> "D"
      [] c = "e" -> "E" [] c = "f" -> "F" [] c = "g" -> "G" [] c = "h" -> "H"
      [] c = "i" -> "I" [] c = "j" -> "J" [] c = "k" -> "K" [] c = "l" -> "L"
      [] c = "m" -> "M" [] c = "n" -> "N" [] c = "o" -> "O" [] c = "p" -> "P"
      [] c = "q" -> "Q" [] c = "r" -> "R" [] c = "s" -> "S" [] c = "t" -> "T"
      [] c = "u" -> "U" [] c = "v" -> "V" [] c = "w" -> "W" [] c = "x" -> "X"
      [] c = "y" -> "Y" [] c = "z" -> "Z"
      [] OTHER -> c

UpperText(text) == [i \in 1..Len(text) |-> UpperChar(text[i])]

\* CleanTextPipeline._DRIVETRAIN_ALIASES: the keys
DrivetrainAliasKeys ==
    { <<"4", "W", "D">>, <<"4", "X", "4">>, <<"4", "W", "D", "/", "A", "W", "D">> }

\* _DRIVETRAIN_ALIASES.get(dt.upper(), dt): every key stands for "AWD"
FoldDrivetrain(dt) ==
    IF dt = None THEN None
    ELSE IF UpperText(dt[1]) \in DrivetrainAliasKeys THEN Some(<<"A", "W", "D">>)
    ELSE dt

SignedPrice(raw) ==
    IF raw = None \/ raw[1].type # "str" THEN raw
    ELSE LET digits == OnlyDigits(raw[1].val)
         IN  IF digits = <<>> THEN None
             ELSE IF \E i \in 1..Len(raw[1].val) : raw[1].val[i] = "-"
             THEN Some(Num(0 - IntOfDigits(digits)))
             ELSE Some(Num(IntOfDigits(digits)))

\* int(digits) if digits else None, for a price given as a str
CleanPrice(raw) ==
    IF raw = None \/ raw[1].type # "str" THEN raw
    ELSE LET digits == OnlyDigits(raw[1].val)
         IN  IF digits # <<>> THEN Some(Num(IntOfDigits(digits))) ELSE None

\* adjustments given as a str: the sign is kept
CleanAdjustments(adj) ==
    IF adj = None \/ adj[1].type # "str" THEN adj
    ELSE LET negative == \E i \in 1..Len(adj[1].val) : adj[1].val[i] = "-"
             digits == OnlyDigits(adj[1].val)
         IN  IF digits = <<>> THEN None
             ELSE IF negative THEN Some(Num(0 - IntOfDigits(digits)))
             ELSE Some(Num(IntOfDigits(digits)))

\* the fields of "Normalise prices to plain integers"
PRICE_FIELDS == {"msrp", "base_price", "total_packages_price", "dealer_accessories", "total_price"}

\* CleanTextPipeline.process_item, on the fields of the item that the model
\* carries: trim and drivetrain (of TEXT_FIELDS), the price fields, adjustments
CleanText(it) ==
    [f \in DOMAIN it |->
        CASE f = "trim" -> CleanField(it.trim)
          [] f = "drivetrain" -> FoldDrivetrain(CleanField(it.drivetrain))
          [] f \in PRICE_FIELDS -> CleanPrice(it[f])
          [] f = "adjustments" -> CleanAdjustments(it.adjustments)
          [] OTHER -> it[f]]

\* TimestampPipeline.process_item: datetime.now(timezone.utc).isoformat()
Timestamp(it) == [it EXCEPT !.scraped_at = Some("now")]

\* an item as a spider hands it to the pipelines
Scraped(trim, drivetrain, msrp, base, pkgs_total, acc, total, adj) ==
    [trim |-> trim, drivetrain |-> drivetrain, msrp |-> msrp, base_price |-> base,
     total_packages_price |-> pkgs_total, dealer_accessories |-> acc,
     total_price |-> total, adjustments |-> adj, scraped_at |-> None]

\* The items handed to the pipelines: with the prices as ints, as the spiders
\* of this package store them (the third as dealeron does for a sticker price
\* of 3, packages of 1 and 2 and a price of 2), and with the prices as texts.
ScrapedItems ==
    { Scraped(Some(<<" ", "X", "L", "E", "\t", " ", "S">>), Some(<<"4", "x", "4", " ">>),
              Some(Num(5)), Some(Num(5)), None, None, Some(Num(5)), None),
      Scraped(None, None,
              Some(Str(<<"-", "$", "3">>)), Some(Str(<<"$", "3">>)), None, None,
              Some(Str(<<"$", "5">>)), Some(Str(<<"-", "$", "1">>))),
      Scraped(Some(<<"L", "E">>), Some(<<"F", "W", "D">>),
              Some(Num(3)), Some(Num(0)), Some(Num(3)), None,
              Some(Num(2)), Some(Num(0 - 1))),
      Scraped(Some(<<"L", "E", " ", " ">>), Some(<<"\n", "4", "w", "d", "/", "a", "w", "d">>),
              None, None, Some(Str(<<"c", "a", "l", "l">>)), None,
              Some(Str(<<"$", "0">>)), Some(Str(<<"n", "/", "a">>))) }

ChainDone == stage = Len(PipelineChain)

\* a spider yields an item: Scrapy hands it to the first pipeline
spider_yields(it) ==
    /\ inflight = None \/ ChainDone
    /\ Len(heap[all_items]) < MaxPiped
    /\ inflight' = Some(it)
    /\ stage' = 0
    /\ passed' = <<>>
    /\ UNCHANGED <<progVars, taskVars, prodVars, histVars, spider, page, yielded, callVars>>

\* the next pipeline of the chain is called with the item the previous one
\* returned
NextPipelineIs(cls) ==
    /\ inflight # None
    /\ ~ChainDone
    /\ PipelineChain[stage + 1] = cls
    /\ stage' = stage + 1
    /\ passed' = Append(passed, cls)

CleanTextPipeline_process_item ==
    /\ NextPipelineIs("CleanTextPipeline")
    /\ inflight' = Some(CleanText(inflight[1]))
    /\ UNCHANGED <<progVars, taskVars, prodVars, histVars, spider, page, yielded, callVars>>

TimestampPipeline_process_item ==
    /\ NextPipelineIs("TimestampPipeline")
    /\ inflight' = Some(Timestamp(inflight[1]))
    /\ UNCHANGED <<progVars, taskVars, prodVars, histVars, spider, page, yielded, callVars>>

\* the report pipeline (priority 900): _all_items.append(dict(item))
ReportPipeline_process_item ==
    /\ NextPipelineIs("JsonReportPipeline")
    /\ heap' = [heap EXCEPT ![all_items] = AppendItem(@, inflight[1])]
    /\ UNCHANGED <<settings, total_expected, completed_count, all_items,
                   hide_dealer, report, log, taskVars, prodVars, histVars,
                   spider, page, yielded, inflight, callVars>>

PipelineNext ==
    \/ \E it \in ScrapedItems : spider_yields(it)
    \/ CleanTextPipeline_process_item
    \/ TimestampPipeline_process_item
    \/ ReportPipeline_process_item

PipelineSpec == Init /\ [][PipelineNext]_vars

\* ------------------------------------------------- the drivetrain of an item
\* `part in text`
Contains(text, part) ==
    \E i \in 0..(Len(text) - Len(part)) : SubSeq(text, i + 1, i + Len(part)) = part

\* .strip()
Strip(text) == DropTrailingSpaces(DropSpaces(text))

\* the first index of a set of indices
First(indices) == CHOOSE i \in indices : \A j \in indices : i <= j

\* parsing_helpers._DRIVETRAIN_MAP, in the order of the dict: <<key, value>>
DRIVETRAIN_MAP ==
    << <<<<"A", "L", "L", " ", "W", "H", "E", "E", "L", " ", "D", "R", "I", "V", "E">>,
         <<"A", "W", "D">>>>,
       <<<<"A", "L", "L", "-", "W", "H", "E", "E", "L", " ", "D", "R", "I", "V", "E">>,
         <<"A", "W", "D">>>>,
       <<<<"A", "W", "D">>,
         <<"A", "W", "D">>>>,
       <<<<"F", "O", "U", "R", " ", "W", "H", "E", "E", "L", " ", "D", "R", "I", "V", "E">>,
         <<"4", "W", "D">>>>,
       <<<<"F", "O", "U", "R", "-", "W", "H", "E", "E", "L", " ", "D", "R", "I", "V", "E">>,
         <<"4", "W", "D">>>>,
       <<<<"4", "W", "D">>,
         <<"4", "W", "D">>>>,
       <<<<"4", "X", "4">>,
         <<"4", "X", "4">>>>,
       <<<<"F", "R", "O", "N", "T", " ", "W", "H", "E", "E", "L", " ", "D", "R", "I", "V", "E">>,
         <<"F", "W", "D">>>>,
       <<<<"F", "R", "O", "N", "T", "-", "W", "H", "E", "E", "L", " ", "D", "R", "I", "V", "E">>,
         <<"F", "W", "D">>>>,
       <<<<"F", "W", "D">>,
         <<"F", "W", "D">>>>,
       <<<<"R", "E", "A", "R", " ", "W", "H", "E", "E", "L", " ", "D", "R", "I", "V", "E">>,
         <<"R", "W", "D">>>>,
       <<<<"R", "E", "A", "R", "-", "W", "H", "E", "E", "L", " ", "D", "R", "I", "V", "E">>,
         <<"R", "W", "D">>>>,
       <<<<"R", "W", "D">>,
         <<"R", "W", "D">>>> >>

\* parsing_helpers._DRIVETRAIN_TOKENS
DRIVETRAIN_TOKENS ==
    << <<"A", "W", "D">>, <<"4", "W", "D">>, <<"F", "W", "D">>, <<"R", "W", "D">>, <<"4", "X", "4">>, <<"4", "X", "2">> >>

\* parsing_helpers.normalize_drivetrain(*sources)
RECURSIVE normalize_drivetrain(_)
normalize_drivetrain(sources) ==
    IF sources = <<>> THEN None
    ELSE LET upper == UpperText(Strip(Head(sources)))
             exact == { i \in DOMAIN DRIVETRAIN_MAP : DRIVETRAIN_MAP[i][1] = upper }
             verbose == { i \in DOMAIN DRIVETRAIN_MAP : Contains(upper, DRIVETRAIN_MAP[i][1]) }
             tokens == { i \in DOMAIN DRIVETRAIN_TOKENS : Contains(upper, DRIVETRAIN_TOKENS[i]) }
         IN  IF Head(sources) = <<>> THEN normalize_drivetrain(Tail(sources))
             ELSE IF exact # {} THEN Some(DRIVETRAIN_MAP[First(exact)][2])
             ELSE IF verbose # {} THEN Some(DRIVETRAIN_MAP[First(verbose)][2])
             ELSE IF tokens # {} THEN Some(DRIVETRAIN_TOKENS[First(tokens)])
             ELSE normalize_drivetrain(Tail(sources))

\* dealeron.py line 191: the tokens looked for in data-name
DealerOnNameTokens ==
    << <<"A", "W", "D">>, <<"4", "W", "D">>, <<"F", "W", "D">>, <<"R", "W", "D">>, <<"4", "x", "4">>, <<"4", "x", "2">> >>

\* dealeron.py, parse_detail lines 179-196
DealerOnDrivetrain(features, name) ==
    LET labelled == { i \in DOMAIN features :
                        \E t \in DOMAIN DRIVETRAIN_TOKENS :
                            Contains(UpperText(Strip(features[i])), DRIVETRAIN_TOKENS[t]) }
        named == { t \in DOMAIN DealerOnNameTokens :
                        Contains(UpperText(name), DealerOnNameTokens[t]) }
    IN  IF labelled # {} THEN Some(Strip(features[First(labelled)]))
        ELSE IF named # {} THEN Some(DealerOnNameTokens[First(named)])
        ELSE None

MaxFeatures == 1

\* texts of the page: a highlighted-features label, the vehicle's name, its
\* trim or body style, a drivetrain value of the page's data
DriveTexts ==
    { <<>>,
      <<"A", "W", "D">>,
      <<"a", "w", "d">>,
      <<"4", "x", "4">>,
      <<"X", "L", "E", " ", "A", "W", "D">>,
      <<"F", "r", "o", "n", "t", "-", "W", "h", "e", "e", "l", " ", "D", "r", "i", "v", "e">>,
      <<"H", "y", "b", "r", "i", "d">>,
      <<"4", "x", "2", " ">> }

\* the number of sources the spider gives to normalize_drivetrain
NumSources(sp) == IF sp \in {"teamvelocity", "dealerinspire"} THEN 1 ELSE 2

DrivePages(sp) ==
    IF sp = "dealeron"
    THEN { [features |-> f, name |-> n] :
             f \in ListsUpTo(DriveTexts, MaxFeatures), n \in DriveTexts }
    ELSE { [sources |-> s] : s \in [1..NumSources(sp) -> DriveTexts] }

DriveInit ==
    /\ CollectorInit
    /\ spider \in Spiders
    /\ page \in DrivePages(spider)
    /\ yielded = None
    /\ inflight = None
    /\ stage = 0
    /\ passed = <<>>
    /\ arg = None
    /\ outcome = None

\* the item is yielded with the drivetrain the spider stored
YieldsDrivetrain(drivetrain) ==
    /\ inflight = None
    /\ inflight' = Some(Scraped(None, drivetrain, None, None, None, None, None, None))
    /\ stage' = 0
    /\ passed' = <<>>
    /\ UNCHANGED <<progVars, taskVars, prodVars, histVars, spider, page, yielded, callVars>>

DealerOn_drivetrain ==
    /\ spider = "dealeron"
    /\ YieldsDrivetrain(DealerOnDrivetrain(page.features, page.name))

\* dealercom, dealereprocess, dealervenom, teamvelocity, dealerinspire:
\* item["drivetrain"] = normalize_drivetrain(...)
Spider_normalize_drivetrain ==
    /\ spider # "dealeron"
    /\ YieldsDrivetrain(normalize_drivetrain(page.sources))

DriveNext ==
    \/ DealerOn_drivetrain
    \/ Spider_normalize_drivetrain
    \/ CleanTextPipeline_process_item
    \/ TimestampPipeline_process_item
    \/ ReportPipeline_process_item

DriveSpec == DriveInit /\ [][DriveNext]_vars

\* ------------------------------------------------ calls of the price helpers
MaxText == 3

PriceChars == {"$", "0", "5", "-", ".", "a"}

\* What a price helper can be called with: None, a text of the page, an int
\* of the page's JSON data.
PriceArgs ==
    {None} \cup { Some(Str(t)) : t \in ListsUpTo(PriceChars, MaxText) }
           \cup { Some(Num(n)) : n \in {0 - 2, 0, 4} }

ParseInit ==
    /\ CollectorInit
    /\ spider = "none"
    /\ page = None
    /\ yielded = None
    /\ inflight = None
    /\ stage = 0
    /\ passed = <<>>
    /\ arg \in PriceArgs
    /\ outcome = None

Called(fn, result, item) ==
    /\ outcome = None
    /\ outcome' = Some([fn |-> fn, raised |-> result.raised, value |-> result.value,
                        item |-> item])
    /\ UNCHANGED <<progVars, taskVars, prodVars, histVars,
                   spider, page, yielded, inflight, stage, passed, arg>>

parse_price_called == Called("parse_price", Returned(parse_price(arg)), None)

safe_int_called == Called("safe_int", safe_int_call(arg), None)

\* CleanTextPipeline.process_item on an item whose price fields and
\* adjustments all hold the value: the item returned, and its total_price
CleanTextPipeline_called ==
    LET item == CleanText(Scraped(None, None, arg, arg, arg, arg, arg, arg))
        cleaned == item.total_price
    IN  Called("CleanTextPipeline",
               Returned(IF cleaned = None THEN None ELSE Some(cleaned[1].val)),
               Some(item))

ParseNext ==
    \/ parse_price_called
    \/ safe_int_called
    \/ CleanTextPipeline_called

ParseSpec == ParseInit /\ [][ParseNext]_vars

\* ------------------------------------------------------------------ claims

\* C1: in a batch registered with N >= 1 spiders the hand-off (the list taken
\* from _all_items, then the reset) happens at most once, only at the N-th
\* close_spider call, and it has happened once N calls have been made,
\* whatever process_item calls came in between.
C1_FinalizeOnceAtLastClose ==
    /\ Len(handed) <= 1
    /\ \A i \in 1..Len(handed) : handed[i].at = Registered
    /\ (batch >= 1 /\ closeCalls = Registered) => Len(handed) = 1

C1_Witness ==
    /\ Registered = 2 /\ closeCalls = 2
    /\ Len(handed) = 1 /\ handed[1].at = 2
    /\ Len(log) = 1 /\ log[1][1] = "progress" /\ log[1][3] = 1
    /\ Len(batchAppends) = 3

\* C2: what the hand-off takes, and what _write_report renders, is exactly
\* the multiset of items passed to process_item in the batch: nothing lost,
\* nothing twice, nothing of another batch.
C2_HandedIsWhatWasAppended ==
    /\ \A i \in 1..Len(handed) : BagOf(handed[i].items) = BagOf(batchAppends)
    /\ report # <<>> => BagOf(report[1].rows) = BagOf(batchAppends)

\* Two spiders: spider 2 closes having appended nothing (its progress line
\* counts 0 items), spider 1 appends 3 items, two of them equal, and closes:
\* 3 rows.
C2_Witness ==
    /\ Registered = 2 /\ closeCalls = 2
    /\ Len(log) = 1 /\ log[1] = <<"progress", 2, 0, 1, 2>>
    /\ Len(batchAppends) = 3
    /\ batchAppends[1] = batchAppends[2]
    /\ report # <<>> /\ Len(report[1].rows) = 3
    /\ batch = 2

\* C3: a close_spider call whose incremented count is below the total only
\* logs progress (no report, _all_items and its list untouched, no hand-off),
\* and no batch is handed off more than once.
C3_ProgressOnlyBelowTotal ==
    /\ [](Len(handed) <= 1)
    /\ [][(closeCalls' = closeCalls + 1 /\ completed_count + 1 < total_expected)
            => /\ completed_count' = completed_count + 1
               /\ heap' = heap /\ all_items' = all_items
               /\ report' = report /\ handed' = handed
               /\ Len(log') = Len(log) + 1
               /\ log'[Len(log')][1] = "progress"]_vars

C3_Witness ==
    /\ Registered = 2 /\ closeCalls = 1
    /\ completed_count = 1
    /\ Len(log) = 1 /\ log[1][1] = "progress"
    /\ Len(heap[all_items]) = 2
    /\ handed = <<>> /\ report = <<>>

\* C4: a hand-off leaves _all_items empty and _completed_count 0, every
\* batch starts from that state, and a batch after the first hands off
\* exactly its own items, in order, at exactly its own N-th close_spider.
C4_SecondBatchLikeFirst ==
    /\ handed # <<>> => (heap[all_items] = <<>> /\ completed_count = 0)
    /\ (batch >= 1 /\ closeCalls = 0 /\ batchAppends = <<>>)
            => (heap[all_items] = <<>> /\ completed_count = 0)
    /\ batch >= 2 =>
        /\ \A i \in 1..Len(handed) :
              handed[i].at = Registered /\ handed[i].items = batchAppends
        /\ closeCalls = Registered => Len(handed) = 1
        /\ closeCalls < Registered => handed = <<>>

C4_Witness ==
    /\ batch = 2 /\ Registered = 2 /\ closeCalls = 2
    /\ Len(handed) = 1 /\ Len(handed[1].items) = 1
    /\ report # <<>> /\ Len(report[1].rows) = 1

\* C5: when the last spider closes and nothing was appended, no report is
\* written, the "no items" note is logged, and list and count are reset.
C5_EmptyBatchWritesNothing ==
    (handed # <<>> /\ batchAppends = <<>>)
        => /\ report = <<>>
           /\ Len(log) >= 1 /\ log[Len(log)] = <<"no_items">>
           /\ completed_count = 0 /\ heap[all_items] = <<>>

C5_Witness ==
    /\ Registered = 2 /\ closeCalls = 2
    /\ handed # <<>> /\ batchAppends = <<>>
    /\ log[Len(log)] = <<"no_items">>

\* C6 (as claimed): a close_spider call after the batch has finalized is
\* reported as a contract violation, is not counted towards the next batch
\* and causes no second hand-off.
C6_ExtraCloseRejected ==
    /\ late.closes > 0 => ViolationReported
    /\ (batch >= 1 /\ BatchIdle) => completed_count = 0
    /\ Len(handed) <= 1

\* C7 (as claimed): a process_item call after the batch has finalized is
\* reported as a contract violation and its item is not kept in _all_items,
\* so nothing is stored between batches.
C7_LateAppendRejected ==
    /\ late.appends > 0 => ViolationReported
    /\ (batch >= 1 /\ BatchIdle) => heap[all_items] = <<>>

\* C8: once all N spiders have closed, the list handed off, the report and
\* the collector's state are determined by the registration and the sequence
\* of process_item calls alone: not by the order of the close_spider calls
\* nor by the instance that made the last one.
C8_LastFinisherIrrelevant ==
    (batch >= 1 /\ closeCalls = Registered) =>
        /\ Len(handed) = 1 /\ handed[1].items = batchAppends
        /\ report = IF batchAppends = <<>> THEN <<>>
                    ELSE <<[rows |-> SortItems(batchAppends), hide |-> settings.hide]>>
        /\ completed_count = 0 /\ heap[all_items] = <<>>
        /\ total_expected = Registered

\* Spider 1 closes last here (spider 2 logged the progress line); TLC also
\* reaches the state with the roles swapped.
C8_Witness ==
    /\ Registered = 2 /\ closeCalls = 2
    /\ Len(log) = 1 /\ log[1][1] = "progress" /\ log[1][2] = 2
    /\ report # <<>> /\ Len(report[1].rows) = 2

\* C9: there is no timeout.  While fewer than N spiders have called
\* close_spider nothing is handed off or written and every item stays in
\* _all_items; and when the spiders are scheduled, a batch ends up handed off
\* unless one of its spiders failed before closing.
C9_NoTimeout ==
    /\ [](closeCalls < Registered
            => (handed = <<>> /\ report = <<>> /\ heap[all_items] = batchAppends))
    /\ (batch >= 1 /\ handed = <<>>)
          ~> (handed # <<>> \/ \E t \in Tasks : pc[t] = "failed")

\* One spider failed, the other closed: the items wait forever.
C9_Witness ==
    /\ Registered = 2 /\ closeCalls = 1
    /\ \E t \in Tasks : pc[t] = "failed"
    /\ \E t \in Tasks : pc[t] = "closed"
    /\ heap[all_items] # <<>> /\ handed = <<>>

\* C10: an item appended to _all_items while a close_spider call is between
\* `items = _all_items` and `_all_items = []` is, from then on, in exactly one
\* place and there once: in the list that call is handing off, or in a
\* written report, or in the list of the next batch; never in none of them
\* and never in the next batch's list as well.
Occurrences(list, item) == Cardinality({ i \in 1..Len(list) : list[i] = item })

BeingHandedOff(item) ==
    \E t \in Tasks : /\ pc[t] \in {"L136", "L137", "L139", "L143"}
                     /\ Occurrences(heap[items[t]], item) = 1

InNextList(item) ==
    /\ item \in Range(heap[all_items])
    /\ \A t \in Tasks : pc[t] \in {"L136", "L137", "L139", "L143"} => items[t] # all_items

C10_WindowAppendNotLost ==
    \A item \in windowRecs :
        /\ BeingHandedOff(item) \/ item \in written \/ InNextList(item)
        /\ ~(BeingHandedOff(item) /\ item \in written)
        /\ ~(InNextList(item) /\ (BeingHandedOff(item) \/ item \in written))
        /\ report # <<>> => Occurrences(report[1].rows, item) <= 1

\* An item appended in the window is in the report of the call that was
\* handing off, while the next batch's list already holds a later item.
C10_Witness ==
    /\ NoCloseActive
    /\ \E item \in windowRecs :
          /\ report # <<>> /\ Occurrences(report[1].rows, item) = 1
          /\ item \notin Range(heap[all_items])
    /\ heap[all_items] # <<>>

C12_RegisteredOnceBeforeItems ==
    [][(\E t \in Tasks : pc[t] = "new" /\ pc'[t] = "open")
         => (batchAppends = <<>> /\ \A u \in Tasks : pc[u] \notin {"open", "closed"})]_vars

\* C12: every from_crawler call registers the count again, each time with the
\* number of spiders of the batch; from the first call on, also after items
\* were appended and spiders closed, _total_expected is that number, >= 1.
C12_RegisteredByEverySpider ==
    (\E t \in Tasks : pc[t] \in {"open", "closed"})
        => /\ total_expected = Cardinality({ t \in Tasks : pc[t] # "absent" })
           /\ total_expected >= 1

\* the second spider of a batch of two is created after the first has
\* appended an item and closed
C12_Witness ==
    /\ pc = [t \in Tasks |-> IF t = 1 THEN "closed" ELSE IF t = 2 THEN "open" ELSE "absent"]
    /\ Len(batchAppends) = 1
    /\ total_expected = 2

\* C13: every dealer of the config eventually has its spider started and
\* closed, whatever happened to the crawls of the dealers before it, and the
\* batch is eventually handed off.
C13_EveryDealerCrawled ==
    /\ \A t \in Tasks : (pc[t] = "new") ~> (pc[t] \in {"closed", "failed"})
    /\ (batch >= 1 /\ handed = <<>>) ~> (handed # <<>>)

\* C14 as stated: the rows of the report are in ascending order of VIN, the
\* records without a VIN after all records that have one.
VinKey(it) == <<IF it.vin = None THEN 1 ELSE 0, IF it.vin = None THEN 0 ELSE it.vin[1]>>

InsertionOrders(s) ==
    { q \in [1..Len(s) -> Range(s)] : BagOf(q) = BagOf(s) }

\* C15: the report is a function of the records alone: the same records
\* appended in any other order give the same rows.
C15_InsertionOrderIrrelevant ==
    report # <<>> =>
        \A q \in InsertionOrders(handed[1].items) : SortItems(q) = report[1].rows

\* C17: in the item of every spider, adjustments is total_price - msrp -
\* dealer_accessories (0 when absent) when msrp and total_price are both there
\* and differ, with a result of zero stored as None, and None otherwise.
C17_AdjustmentsFormula ==
    yielded # None =>
        LET it == yielded[1]
        IN  it.adjustments =
              IF it.msrp # None /\ it.total_price # None /\ it.total_price # it.msrp
              THEN IntOrNone(it.total_price[1] - it.msrp[1]
                               - PriceOrZero(it.dealer_accessories))
              ELSE None

\* C18: an item whose total_price equals its msrp has no adjustments, also
\* when the page has a dealer-adjustment line.
C18_NoAdjustmentAtSticker ==
    (yielded # None /\ yielded[1].total_price = yielded[1].msrp)
        => yielded[1].adjustments = None

\* the prices that can be read from the packages of an item, added up
RECURSIVE PresentPriceSum(_)
PresentPriceSum(pkgs) ==
    IF pkgs = <<>> THEN 0
    ELSE (IF parse_price(Head(pkgs).price) = None THEN 0
          ELSE parse_price(Head(pkgs).price)[1]) + PresentPriceSum(Tail(pkgs))

PackagesOf(it) == IF it.packages = None THEN <<>> ELSE it.packages[1]

\* C19: in the item of every spider, total_packages_price is the sum of the
\* prices of the packages of its packages list, a package without a price
\* counting 0, and it is None exactly when that sum is zero.
C19_PackagesTotal ==
    yielded # None =>
        LET it == yielded[1]
            total == PresentPriceSum(PackagesOf(it))
        IN  /\ it.total_packages_price = None <=> total = 0
            /\ it.total_packages_price # None => it.total_packages_price[1] = total

\* dealercom: two priced factory packages and a dealer accessory, which is
\* not in the list and not in the total
C19_Witness ==
    /\ yielded # None
    /\ spider = "dealercom"
    /\ Len(page.packages) = 3
    /\ Len(PackagesOf(yielded[1])) = 2
    /\ yielded[1].dealer_accessories = Some(2)
    /\ yielded[1].total_packages_price = Some(3)

\* C20: in the item of every spider, base_price is msrp minus
\* total_packages_price (0 when absent) when msrp is there, and None when
\* msrp is absent.
C20_BasePrice ==
    yielded # None =>
        LET it == yielded[1]
        IN  it.base_price =
              IF it.msrp # None
              THEN Some(it.msrp[1] - PriceOrZero(it.total_packages_price))
              ELSE None

\* a text without a space at either end, without a tab or a newline and
\* without two spaces in a row
IsClean(value) ==
    value # None =>
        LET text == value[1]
        IN  /\ \A i \in 1..Len(text) : text[i] \notin {"\t", "\n"}
            /\ \A i \in 1..Len(text) : text[i] = " " => i \notin {1, Len(text)}
            /\ \A i \in 1..(Len(text) - 1) : ~(text[i] = " " /\ text[i + 1] = " ")

IsPositiveOrAbsent(n) == n = None \/ n[1] > 0

C21_PricesPositiveOrAbsent ==
    yielded # None =>
        LET it == yielded[1]
        IN  /\ IsPositiveOrAbsent(it.msrp)
            /\ IsPositiveOrAbsent(it.base_price)
            /\ IsPositiveOrAbsent(it.total_packages_price)
            /\ IsPositiveOrAbsent(it.dealer_accessories)
            /\ IsPositiveOrAbsent(it.total_price)

\* C22: no record in _all_items has 0 in a price field or in adjustments: a
\* value of zero, given as an int or read from a text such as "$0", is
\* stored as None.
C22_ZeroStoredAsAbsent ==
    \A i \in 1..Len(heap[all_items]) :
        \A f \in PRICE_FIELDS \cup {"adjustments"} :
            heap[all_items][i][f] # Some(Num(0))

\* the package loop of the spider that was given the page
PackageLoop ==
    CASE spider = "dealeron" -> DealerOnPackages(page.packages)
      [] spider = "dealercom" -> DealerComPackages(page.packages)
      [] spider = "dealereprocess" -> DealerEprocessPackages(page.packages)
      [] spider = "dealervenom" -> DealerVenomPackages(page.packages)
      [] spider = "teamvelocity" -> TeamVelocityPackages(page.packages)
      [] OTHER -> Buckets(<<>>, <<>>, <<>>)

CountKind(list, kind) == Cardinality({ i \in 1..Len(list) : list[i].name.kind = kind })

\* C23: the package loop of every spider puts each package element in exactly
\* one of three places: it is dropped, or appended to dealer_acc_packages, or
\* appended to packages.  The three counts add up to the number of elements,
\* no name is both in packages and in dealer_acc_packages, every element with
\* a name that is in neither table is in packages, and the item's packages
\* list is that packages bucket.
C23_PackagesPartition ==
    yielded # None =>
        LET loop == PackageLoop
        IN  /\ Len(loop.packages) + Len(loop.dealer_acc_packages) + Len(loop.dropped)
                  = Len(page.packages)
            /\ \A i \in 1..Len(loop.packages), j \in 1..Len(loop.dealer_acc_packages) :
                  loop.packages[i].name # loop.dealer_acc_packages[j].name
            /\ CountKind(loop.packages, "factory") = CountKind(page.packages, "factory")
            /\ CountKind(loop.dealer_acc_packages, "factory") = 0
            /\ CountKind(loop.dropped, "factory") = 0
            /\ PackagesOf(yielded[1]) = loop.packages

\* dealeron is given three elements: one without a name, which is dropped,
\* one dealer accessory and one factory package
C23_Witness ==
    /\ yielded # None
    /\ spider = "dealeron"
    /\ Len(page.packages) = 3
    /\ Len(PackageLoop.dropped) = 1
    /\ Len(PackageLoop.dealer_acc_packages) = 1
    /\ Len(PackageLoop.packages) = 1
    /\ yielded[1].dealer_accessories = Some(2)

\* C24: a package element whose normalized name is, ignoring case, a name of
\* EXCLUDED_PACKAGES is dropped by every spider: it is neither in the item's
\* packages list nor among the dealer accessories.
C24_ExcludedDiscarded ==
    yielded # None =>
        /\ CountKind(PackagesOf(yielded[1]), "excluded") = 0
        /\ CountKind(PackageLoop.dealer_acc_packages, "excluded") = 0
        /\ CountKind(PackageLoop.dropped, "excluded") = CountKind(page.packages, "excluded")

\* the text of a value as str(s) gives it, its digits, the integer they denote
ArgText == IF arg = None THEN <<>> ELSE StrOf(arg[1])
ArgDigits == OnlyDigits(ArgText)
ArgIsText == arg # None /\ arg[1].type = "str"

\* the integer an int, or a text that is an integer literal, denotes
ArgIsInteger == arg # None /\ (arg[1].type = "int" \/ IsIntLiteral(arg[1].val))
ArgInteger == IF arg[1].type = "int" THEN arg[1].val ELSE IntOfLiteral(arg[1].val)

C26_SignOnlyForAdjustments ==
    (outcome # None /\ outcome[1].fn = "CleanTextPipeline" /\ ArgIsText) =>
        LET item == outcome[1].item[1]
            minus == \E i \in 1..Len(ArgText) : ArgText[i] = "-"
            magnitude == IntOfDigits(ArgDigits)
        IN  /\ \A f \in PRICE_FIELDS :
                  /\ item[f] = IF ArgDigits = <<>> THEN None ELSE Some(Num(magnitude))
                  /\ item[f] # None => item[f][1].val >= 0
            /\ item.adjustments =
                  IF ArgDigits = <<>> THEN None
                  ELSE Some(Num(IF minus THEN 0 - magnitude ELSE magnitude))

\* "-$5" becomes 5 in msrp and in total_price, and -5 in adjustments
C26_Witness ==
    /\ arg = Some(Str(<<"-", "$", "5">>))
    /\ outcome # None
    /\ outcome[1].fn = "CleanTextPipeline"
    /\ outcome[1].item[1].msrp = Some(Num(5))
    /\ outcome[1].item[1].total_price = Some(Num(5))
    /\ outcome[1].item[1].adjustments = Some(Num(0 - 5))

\* the tokens a drivetrain may be
DrivetrainTokens == { DRIVETRAIN_TOKENS[i] : i \in DOMAIN DRIVETRAIN_TOKENS }

\* C27: once CleanTextPipeline has processed the item of a spider, and in
\* _all_items, its drivetrain is None or one of AWD, 4WD, 4X4, FWD, RWD, 4X2.
C27_DrivetrainIsToken ==
    /\ (inflight # None /\ stage >= 1)
          => (inflight[1].drivetrain = None \/ inflight[1].drivetrain[1] \in DrivetrainTokens)
    /\ \A i \in 1..Len(heap[all_items]) :
          \/ heap[all_items][i].drivetrain = None
          \/ heap[all_items][i].drivetrain[1] \in DrivetrainTokens

\* how many records of a list have the VIN
WithVin(list, vin) == Cardinality({ i \in 1..Len(list) : list[i].vin = vin })

\* C28: the collector does not deduplicate: the list handed off, and the
\* report written from it, hold as many records with a given VIN as were
\* passed to process_item with that VIN in the batch.
C28_NoDeduplication ==
    \A r \in Records :
        /\ \A i \in 1..Len(handed) :
              WithVin(handed[i].items, r.vin) = WithVin(batchAppends, r.vin)
        /\ report # <<>> => WithVin(report[1].rows, r.vin) = WithVin(batchAppends, r.vin)

\* three records with the same VIN were appended in a batch of two spiders,
\* two of them equal in every field: the report has three rows
C28_Witness ==
    /\ Registered = 2 /\ closeCalls = 2
    /\ Len(batchAppends) = 3
    /\ batchAppends[1].vin # None
    /\ WithVin(batchAppends, batchAppends[1].vin) = 3
    /\ batchAppends[1] = batchAppends[3]
    /\ batchAppends[1] # batchAppends[2]
    /\ report # <<>> /\ Len(report[1].rows) = 3

\* C29: in a run of the crawl command at most one spider is open at a time;
\* a spider is started only when the crawls of all dealers before it in the
\* config have finished with their spiders closed, so the spiders start in
\* config order; and a dealer whose spider was started is not started again
\* in that run.
C29_OneSpiderAtATime ==
    /\ [](Cardinality({ t \in Tasks : pc[t] = "open" }) <= 1)
    /\ [](\A t \in Tasks :
            pc[t] \in {"open", "closed"} => \A u \in Tasks : u < t => pc[u] = "closed")
    /\ [][\A t \in Tasks :
            (batch' = batch /\ pc[t] \in {"closed", "failed"}) => pc'[t] = pc[t]]_vars

\* the second dealer's spider is open, the first dealer's has closed after
\* appending an item
C29_Witness ==
    /\ Registered = 2
    /\ pc[1] = "closed" /\ pc[2] = "open"
    /\ closeCalls = 1
    /\ Len(batchAppends) = 1

\* C30: between the calls of the collector 0 <= _completed_count <
\* _total_expected (every from_crawler call of a batch registers the same
\* number, at least 1), and a from_crawler call changes _total_expected only:
\* _all_items, the list it refers to and _completed_count stay as they are,
\* also when the spider is created after others have appended and closed.
C30_CountBelowTotal ==
    /\ [](0 <= completed_count /\ completed_count < total_expected)
    /\ [](total_expected >= 1)
    /\ [][(\E t \in Tasks : pc[t] = "new" /\ pc'[t] = "open")
            => /\ completed_count' = completed_count
               /\ all_items' = all_items
               /\ heap' = heap
               /\ total_expected' = Registered]_vars

\* the second spider of a batch of two has just been created: the first has
\* appended two items and closed, and the count and the items are still there
C30_Witness ==
    /\ Registered = 2
    /\ pc[1] = "closed" /\ pc[2] = "open"
    /\ completed_count = 1 /\ total_expected = 2
    /\ Len(heap[all_items]) = 2 /\ heap[all_items] = batchAppends

====
